---- MODULE Spec2Model ----
(***************************************************************************)
(* Model of dysmalpy's ModelSet (src/dysmalpy/models.py): the component    *)
(* registry with its flattened full and free parameter vectors and the     *)
(* per-component index maps; and of the dark matter halos                  *)
(* (src/dysmalpy/models/halos.py): the fdm inversions, the Einasto         *)
(* constructor and velocity_profile, under the specification SpecHalo.     *)
(*                                                                         *)
(* Conventions.  A Python dict is a function whose DOMAIN is its key set;  *)
(* the key order of _param_free_keys (which update_parameters iterates) is *)
(* kept in key_order.  A numpy array is a sequence; Python's 0-based index *)
(* i is position i+1.  A model instance is a record with the attributes    *)
(* ModelSet reads: _type, name, param_names, parameters, fixed, tied.      *)
(* ModelSet.fixed[name] is the very dict object components[name].fixed     *)
(* and ModelSet.param_names[name] the tuple components[name].param_names,  *)
(* so both are read off components.  ModelSet.geometry is always the       *)
(* object stored as components[geometry.name]; it is kept as that key.     *)
(***************************************************************************)
EXTENDS Integers, Sequences, FiniteSets, TLC

VARIABLES components, mass_components, geometry, parameters_is_None,
          parameters, parameters_free, _param_keys, _param_free_keys,
          key_order, nparams, nparams_free, call, raised, ncalls,
          returned, used, halo

store == <<components, mass_components, geometry, parameters_is_None,
           parameters, parameters_free, _param_keys, _param_free_keys,
           key_order, nparams, nparams_free>>

vars == <<components, mass_components, geometry, parameters_is_None,
          parameters, parameters_free, _param_keys, _param_free_keys,
          key_order, nparams, nparams_free, call, raised, ncalls,
          returned, used, halo>>

(* ------------------------------ bounds --------------------------------- *)

\* add_component is not called once the full vector would exceed this
MaxParams == 8

\* number of calls made on the ModelSet
MaxCalls == 4

(* ----------------------------- constants ------------------------------- *)

\* Python's None, as a name and as a dict key
None == "None"

\* ModelSet.geometry before any geometry is added
NoGeometry == "NoGeometry"

\* no halo object is involved
NoHalo == [class |-> "None"]

\* free-index sentinel of a fixed parameter
Sentinel == 0 - 99

\* parameter values: two distinct numbers tell a write from no write
Values == {1, 2}

Sersic_param_names == <<"total_mass", "r_eff", "n">>

Geometry_param_names == <<"inc", "pa", "xshift", "yshift">>

NFW_param_names == <<"mvirial", "conc", "fdm">>

\* what a call returns: a kind and, for a number taken from a search
\* grid, the grid positions it was computed from
Value(kind, a, b) == [kind |-> kind, a |-> a, b |-> b]

\* the return value of a method without a return statement
ReturnsNone == Value("None", 0, 0)

(* ------------------------- Python / numpy helpers ---------------------- *)

Range(s) == {s[i] : i \in 1..Len(s)}

\* tuple.index(x): 0-based position of the first occurrence
IndexOf(s, x) == (CHOOSE i \in 1..Len(s) : s[i] = x /\ \A j \in 1..(i-1) : s[j] # x) - 1

\* numpy index normalisation: a negative index counts from the end
NormIndex(arr, i) == IF i < 0 THEN i + Len(arr) ELSE i

IndexInRange(arr, i) == NormIndex(arr, i) >= 0 /\ NormIndex(arr, i) < Len(arr)

SetItem(arr, i, v) == [arr EXCEPT ![NormIndex(arr, i) + 1] = v]

\* d[k] = v on a dict
DictSet(d, k, v) == [x \in (DOMAIN d) \cup {k} |-> IF x = k THEN v ELSE d[x]]

\* key order of a dict after d[k] = v: a new key goes last, an old one stays
OrderSet(ord, k) == IF k \in Range(ord) THEN ord ELSE Append(ord, k)

RECURSIVE SelectFree(_, _, _)
\* [vals[i] for i, n in enumerate(names) if not fx[n]], from position i on
SelectFree(names, vals, fx) ==
    IF names = <<>> THEN <<>>
    ELSE IF fx[Head(names)]
         THEN SelectFree(Tail(names), Tail(vals), fx)
         ELSE <<Head(vals)>> \o SelectFree(Tail(names), Tail(vals), fx)

(* ------------------------------ models --------------------------------- *)

\* a model instance as ModelSet sees it
Model(fittable, type, name, pnames, pvals, fx) ==
    [fittable |-> fittable, _type |-> type, name |-> name,
     param_names |-> pnames, parameters |-> pvals, fixed |-> fx,
     tied |-> [p \in Range(pnames) |-> FALSE]]

\* Model.rename(name): a copy of the instance carrying the new name
rename(model, name) == [model EXCEPT !.name = name]


\* the instances handed to add_component.  Constructor arguments are in
\* declared order and differ between neighbours; the fixed dict either
\* leaves every parameter free or fixes every second one, so that a free
\* parameter's rank among the free ones differs from its position.
ConstructorArgs(pnames) == [i \in 1..Len(pnames) |-> (i % 2) + 1]

AllFree(pnames) == [p \in Range(pnames) |-> FALSE]

EverySecondFixed(pnames) == [p \in Range(pnames) |-> IndexOf(pnames, p) % 2 = 1]

FixedDicts(pnames) == {AllFree(pnames), EverySecondFixed(pnames)}

SersicInstances ==
    {Model(TRUE, "mass", nm, Sersic_param_names,
           ConstructorArgs(Sersic_param_names), fx) :
        nm \in {None, "disk"}, fx \in FixedDicts(Sersic_param_names)}

GeometryInstances ==
    {Model(TRUE, "geometry", nm, Geometry_param_names,
           ConstructorArgs(Geometry_param_names), fx) :
        nm \in {None, "disk", "geom"}, fx \in FixedDicts(Geometry_param_names)}

\* a FittableModel whose _type is neither 'mass' nor 'geometry', and an
\* object that is no FittableModel at all
OtherInstances ==
    {Model(TRUE, "dispersion", "disp", <<"sigma0">>, <<1>>, [p \in {"sigma0"} |-> FALSE]),
     Model(FALSE, "none", None, <<>>, <<>>, <<>>)}

\* the NFW halo of the test setup: conc fixed, fdm not fixed and given a
\* tie function after construction
NFWInstances ==
    {[Model(TRUE, "mass", "halo", NFW_param_names,
            ConstructorArgs(NFW_param_names),
            [p \in Range(NFW_param_names) |-> p = "conc"])
        EXCEPT !.tied["fdm"] = TRUE]}

ModelInstances ==
    SersicInstances \cup GeometryInstances \cup NFWInstances \cup OtherInstances

\* the name argument of add_component
NameArgs == {None, "halo"}

(* ----------------------------- ModelSet -------------------------------- *)

\* the ModelSet object: the current values of its attributes
ModelSet ==
    [components |-> components, mass_components |-> mass_components,
     geometry |-> geometry, parameters_is_None |-> parameters_is_None,
     parameters |-> parameters, parameters_free |-> parameters_free,
     _param_keys |-> _param_keys, _param_free_keys |-> _param_free_keys,
     key_order |-> key_order, nparams |-> nparams,
     nparams_free |-> nparams_free]

\* ModelSet.__init__
ModelSet__init__ ==
    [components |-> <<>>, mass_components |-> <<>>,
     geometry |-> NoGeometry, parameters_is_None |-> TRUE,
     parameters |-> <<>>, parameters_free |-> <<>>,
     _param_keys |-> <<>>, _param_free_keys |-> <<>>,
     key_order |-> <<>>, nparams |-> 0, nparams_free |-> 0]

\* what a call gives back: the ModelSet after it and the exception raised
Returns(self) == [self |-> self, raised |-> "none"]

Raises(self, exc) == [self |-> self, raised |-> exc]

\* ModelSet.fixed and ModelSet.param_names
fixed(self) == [c \in DOMAIN self.components |-> self.components[c].fixed]

param_names(self) == [c \in DOMAIN self.components |-> self.components[c].param_names]

\* key_dict of _add_comp: full index of every parameter of the model
key_dict(self, model) ==
    [p \in Range(model.param_names) |-> IndexOf(model.param_names, p) + self.nparams]

RECURSIVE free_keys_from(_, _, _, _)
\* the second loop of _add_comp from position i on, j free parameters
\* seen so far: the free index of each parameter, in declared order
free_keys_from(model, i, j, base) ==
    IF i > Len(model.param_names) THEN <<>>
    ELSE IF ~model.fixed[model.param_names[i]]
         THEN <<j + base>> \o free_keys_from(model, i + 1, j + 1, base)
         ELSE <<Sentinel>> \o free_keys_from(model, i + 1, j, base)

\* the loop with the position i in place of the counter j
key_dict_free_by_position(self, model) ==
    [p \in Range(model.param_names) |->
        IF ~model.fixed[p] THEN IndexOf(model.param_names, p) + self.nparams_free
        ELSE Sentinel]

\* key_dict_free of _add_comp: free index, or the sentinel when fixed
key_dict_free(self, model) ==
    [p \in Range(model.param_names) |->
        free_keys_from(model, 1, 0, self.nparams_free)[IndexOf(model.param_names, p) + 1]]

\* ModelSet._add_comp
_add_comp(self, model) ==
    LET pfree == (IF self.parameters_is_None THEN <<>> ELSE self.parameters_free)
                 \o SelectFree(model.param_names, model.parameters, model.fixed)
    IN [self EXCEPT
          !.components = DictSet(self.components, model.name, model),
          !.parameters_is_None = FALSE,
          !.parameters = IF self.parameters_is_None THEN model.parameters
                         ELSE self.parameters \o model.parameters,
          !.parameters_free = pfree,
          !._param_keys = DictSet(self._param_keys, model.name, key_dict(self, model)),
          !._param_free_keys = DictSet(self._param_free_keys, model.name,
                                       key_dict_free(self, model)),
          !.key_order = OrderSet(self.key_order, model.name),
          !.nparams = self.nparams + Len(model.param_names),
          !.nparams_free = Len(pfree)]

\* the check with "> 1" for "> 0": a dict never holds a key twice
name_taken_twice(self, name) == FALSE

\* list(self.mass_components.keys()).count(model.name) > 0
name_taken(self, name) == name \in DOMAIN self.mass_components

\* ModelSet.add_component
add_component(self, model, name) ==
    IF ~model.fittable THEN Raises(self, "TypeError")
    ELSE IF model._type = "mass" THEN
        IF name = None /\ model.name = None THEN Raises(self, "ValueError")
        ELSE LET m == IF name # None THEN rename(model, name) ELSE model IN
             IF name_taken(self, m.name)
             THEN Raises(self, "ValueError")
             ELSE Returns(_add_comp(
                    [self EXCEPT !.mass_components =
                                    DictSet(self.mass_components, m.name, TRUE)], m))
    ELSE IF model._type = "geometry" THEN
        Returns(_add_comp(
            [self EXCEPT !.geometry = model.name,
                         !.mass_components =
                            DictSet(self.mass_components, model.name, FALSE)], model))
    ELSE Raises(self, "TypeError")

\* ModelSet.set_parameter_value
set_parameter_value(self, model_name, param_name, value) ==
    IF model_name \notin DOMAIN self.components THEN Raises(self, "KeyError")
    ELSE IF param_name \notin Range(self.components[model_name].param_names)
    THEN Raises(self, "ValueError")
    ELSE
      LET param_i == IndexOf(self.components[model_name].param_names, param_name)
          s1 == [self EXCEPT !.components[model_name].parameters =
                                SetItem(@, param_i, value)]
          s2 == [s1 EXCEPT !.parameters =
                                SetItem(@, s1._param_keys[model_name][param_name], value)]
          free_ind == s2._param_free_keys[model_name][param_name]
      IN IF ~s2.components[model_name].fixed[param_name]
         THEN IF IndexInRange(s2.parameters_free, free_ind)
              THEN Returns([s2 EXCEPT !.parameters_free = SetItem(@, free_ind, value)])
              ELSE Raises(s2, "IndexError")
         ELSE Returns(s2)

\* set_parameter_fixed that also retires the free index of a parameter
\* it fixes
set_parameter_fixed_resyncing(self, model_name, param_name, fix) ==
    IF model_name \notin DOMAIN self.components THEN Raises(self, "KeyError")
    ELSE IF param_name \notin Range(self.components[model_name].param_names)
    THEN Raises(self, "ValueError")
    ELSE Returns([self EXCEPT
                    !.components[model_name].fixed = DictSet(@, param_name, fix),
                    !._param_free_keys[model_name][param_name] =
                        IF fix THEN Sentinel ELSE @])

\* set_parameter_fixed without the lookup of param_name
set_parameter_fixed_unchecked(self, model_name, param_name, fix) ==
    IF model_name \in DOMAIN self.components
    THEN Returns([self EXCEPT !.components[model_name].fixed =
                                 DictSet(@, param_name, fix)])
    ELSE Raises(self, "KeyError")

\* ModelSet.set_parameter_fixed
set_parameter_fixed(self, model_name, param_name, fix) ==
    IF model_name \notin DOMAIN self.components THEN Raises(self, "KeyError")
    ELSE IF param_name \notin Range(self.components[model_name].param_names)
    THEN Raises(self, "ValueError")
    ELSE Returns([self EXCEPT !.components[model_name].fixed =
                                 DictSet(@, param_name, fix)])

RECURSIVE free_key_items(_, _)
\* the (cmp, pp) pairs in the order update_parameters visits them
free_key_items(self, ord) ==
    IF ord = <<>> THEN <<>>
    ELSE LET pn == self.components[Head(ord)].param_names
         IN [i \in 1..Len(pn) |-> <<Head(ord), pn[i]>>]
            \o free_key_items(self, Tail(ord))

RECURSIVE update_loop(_, _, _)
\* the loop of update_parameters over the remaining items
update_loop(self, items, theta) ==
    IF items = <<>> THEN Returns(self)
    ELSE LET cmp == Head(items)[1]
             pp == Head(items)[2]
             ind == self._param_free_keys[cmp][pp]
         IN IF ind = Sentinel THEN update_loop(self, Tail(items), theta)
            ELSE IF ~IndexInRange(theta, ind) THEN Raises(self, "IndexError")
            ELSE LET r == set_parameter_value(self, cmp, pp,
                                              theta[NormIndex(theta, ind) + 1])
                 IN IF r.raised # "none" THEN r
                    ELSE update_loop(r.self, Tail(items), theta)

\* the sanity check letting a short theta through
theta_not_longer(self, theta) == Len(theta) <= self.nparams_free

\* the sanity check of update_parameters
theta_length_ok(self, theta) == Len(theta) = self.nparams_free

\* ModelSet.update_parameters
update_parameters(self, theta) ==
    IF ~theta_length_ok(self, theta) THEN Raises(self, "ValueError")
    ELSE update_loop(self, free_key_items(self, self.key_order), theta)

(* ------------------------------ actions -------------------------------- *)

Commit(r) ==
    /\ components' = r.self.components
    /\ mass_components' = r.self.mass_components
    /\ geometry' = r.self.geometry
    /\ parameters_is_None' = r.self.parameters_is_None
    /\ parameters' = r.self.parameters
    /\ parameters_free' = r.self.parameters_free
    /\ _param_keys' = r.self._param_keys
    /\ _param_free_keys' = r.self._param_free_keys
    /\ key_order' = r.self.key_order
    /\ nparams' = r.self.nparams
    /\ nparams_free' = r.self.nparams_free
    /\ raised' = r.raised

Call(op, args) == [op |-> op, args |-> args]

\* one more call is made
Enter(op, args) ==
    /\ halo' = halo
    /\ ncalls' = ncalls + 1
    /\ call' = Call(op, args)
    /\ returned' = ReturnsNone
    /\ used' = {}

\* the component and parameter names handed to the setters: every
\* registered component and one that is not, every parameter of the
\* component and one that is none of its own
ModelNameArgs(self) == (DOMAIN self.components) \cup {"bulge"}

ParamNameArgs(self, model_name) ==
    IF model_name \in DOMAIN self.components
    THEN Range(self.components[model_name].param_names) \cup {"sigma0"}
    ELSE {"sigma0"}

\* the vectors handed to update_parameters: the current free vector, and
\* vectors of the right length, one shorter and one longer
Thetas(self) ==
    (IF self.parameters_is_None THEN {} ELSE {self.parameters_free})
    \cup {[i \in 1..n |-> (i % 2) + 1] :
            n \in {m \in {self.nparams_free - 1, self.nparams_free,
                          self.nparams_free + 1} : m >= 0}}

Init ==
    /\ halo = NoHalo
    /\ components = ModelSet__init__.components
    /\ mass_components = ModelSet__init__.mass_components
    /\ geometry = ModelSet__init__.geometry
    /\ parameters_is_None = ModelSet__init__.parameters_is_None
    /\ parameters = ModelSet__init__.parameters
    /\ parameters_free = ModelSet__init__.parameters_free
    /\ _param_keys = ModelSet__init__._param_keys
    /\ _param_free_keys = ModelSet__init__._param_free_keys
    /\ key_order = ModelSet__init__.key_order
    /\ nparams = ModelSet__init__.nparams
    /\ nparams_free = ModelSet__init__.nparams_free
    /\ raised = "none"
    /\ call = Call("__init__", <<>>)
    /\ ncalls = 0
    /\ returned = ReturnsNone
    /\ used = {}

AddComponent ==
    /\ ncalls < MaxCalls
    /\ \E model \in ModelInstances, name \in NameArgs :
        /\ add_component(ModelSet, model, name).self.nparams <= MaxParams
        /\ Commit(add_component(ModelSet, model, name))
        /\ Enter("add_component", <<model, name>>)

SetParameterValue ==
    /\ ncalls < MaxCalls
    /\ \E model_name \in ModelNameArgs(ModelSet) :
       \E param_name \in ParamNameArgs(ModelSet, model_name), value \in Values :
        /\ Commit(set_parameter_value(ModelSet, model_name, param_name, value))
        /\ Enter("set_parameter_value", <<model_name, param_name, value>>)

SetParameterFixed ==
    /\ ncalls < MaxCalls
    /\ \E model_name \in ModelNameArgs(ModelSet) :
       \E param_name \in ParamNameArgs(ModelSet, model_name), fix \in BOOLEAN :
        /\ Commit(set_parameter_fixed(ModelSet, model_name, param_name, fix))
        /\ Enter("set_parameter_fixed", <<model_name, param_name, fix>>)

UpdateParameters ==
    /\ ncalls < MaxCalls
    /\ \E theta \in Thetas(ModelSet) :
        /\ Commit(update_parameters(ModelSet, theta))
        /\ Enter("update_parameters", <<theta>>)

Next ==
    \/ AddComponent
    \/ SetParameterValue
    \/ SetParameterFixed
    \/ UpdateParameters

Spec == Init /\ [][Next]_vars

(* ------------------------- reading the state --------------------------- *)

\* every registered (component, parameter) pair
RegisteredPairs(self) ==
    UNION {{<<c, p>> : p \in Range(self.components[c].param_names)} :
              c \in DOMAIN self.components}

IsFixed(self, cp) == self.components[cp[1]].fixed[cp[2]]

\* the component's own copy of the value
OwnValue(self, cp) ==
    self.components[cp[1]].parameters[
        IndexOf(self.components[cp[1]].param_names, cp[2]) + 1]

FullIndex(self, cp) == self._param_keys[cp[1]][cp[2]]

FreeIndex(self, cp) == self._param_free_keys[cp[1]][cp[2]]

\* the free vector has an entry at the pair's free index, and it is v
FreeEntryIs(self, cp, v) ==
    /\ FreeIndex(self, cp) >= 0
    /\ FreeIndex(self, cp) < Len(self.parameters_free)
    /\ self.parameters_free[FreeIndex(self, cp) + 1] = v

NotFixedCount(self) == Cardinality({cp \in RegisteredPairs(self) : ~IsFixed(self, cp)})

(* ------------------------------ claims --------------------------------- *)

\* C1: in every reachable state the length of the free vector, which is
\* also nparams_free, equals the number of registered (component,
\* parameter) pairs whose fixed flag is currently False.
C1_FreeLengthIsNotFixedCount ==
    /\ nparams_free = NotFixedCount(ModelSet)
    /\ ~parameters_is_None => Len(parameters_free) = NotFixedCount(ModelSet)

\* C2: in every reachable state, for every registered pair the component's
\* own value equals the full-vector entry at its full index and, if the
\* parameter is currently not fixed, the free-vector entry at its free
\* index holds that same value.
C2_ViewsNeverStale ==
    \A cp \in RegisteredPairs(ModelSet) :
        /\ FullIndex(ModelSet, cp) >= 0
        /\ FullIndex(ModelSet, cp) < Len(parameters)
        /\ parameters[FullIndex(ModelSet, cp) + 1] = OwnValue(ModelSet, cp)
        /\ ~IsFixed(ModelSet, cp) =>
              FreeEntryIs(ModelSet, cp, OwnValue(ModelSet, cp))

\* C3: update_parameters called with the current free vector succeeds and
\* leaves every parameter value and both vectors unchanged.
C3_RoundTripIsIdentity ==
    [][(/\ call'.op = "update_parameters"
        /\ ~parameters_is_None
        /\ call'.args[1] = parameters_free)
       => (raised' = "none" /\ UNCHANGED store)]_vars

\* C4: update_parameters(theta) with len(theta) # nparams_free raises the
\* length-mismatch error and leaves the whole ModelSet as it was.
C4_LengthMismatchRejected ==
    [][(call'.op = "update_parameters" /\ Len(call'.args[1]) # nparams_free)
       => (raised' = "ValueError" /\ UNCHANGED store)]_vars

\* C4 witness: a mismatching theta was rejected by a set that has free
\* parameters.
C4_Witness ==
    /\ call.op = "update_parameters"
    /\ raised = "ValueError"
    /\ nparams_free > 0
    /\ Len(call.args[1]) # nparams_free

\* C5: after a successful update_parameters(theta) the free vector equals
\* theta, every currently free parameter holds theta[its free index] in the
\* component, the full vector and the free vector, and every currently
\* fixed parameter keeps the value it had before the call.
C5_UpdateWritesExactlyTheFree ==
    [][(call'.op = "update_parameters" /\ raised' = "none")
       => /\ parameters_free' = call'.args[1]
          /\ \A cp \in RegisteredPairs(ModelSet') :
                IF ~IsFixed(ModelSet', cp)
                THEN /\ FreeEntryIs(ModelSet', cp, OwnValue(ModelSet', cp))
                     /\ parameters'[FullIndex(ModelSet', cp) + 1] = OwnValue(ModelSet', cp)
                     /\ OwnValue(ModelSet', cp) = call'.args[1][FreeIndex(ModelSet', cp) + 1]
                ELSE OwnValue(ModelSet', cp) = OwnValue(ModelSet, cp)]_vars

\* C6: set_parameter_value is all-or-nothing: it returns and the
\* component's own copy, the full-vector entry and, if the parameter is
\* currently free, its free-vector entry all hold value, or it raises and
\* none of the three has changed.
C6_SetValueAllOrNothing ==
    [][call'.op = "set_parameter_value"
       => LET cp == <<call'.args[1], call'.args[2]>>
              value == call'.args[3]
          IN \/ /\ raised' = "none"
                /\ OwnValue(ModelSet', cp) = value
                /\ parameters'[FullIndex(ModelSet', cp) + 1] = value
                /\ ~IsFixed(ModelSet', cp) => FreeEntryIs(ModelSet', cp, value)
             \/ /\ raised' # "none"
                /\ UNCHANGED <<components, parameters, parameters_free>>]_vars

\* C7: a setter called with a component name that is not registered raises
\* KeyError, one called with a parameter name that is not a parameter of
\* the component raises ValueError; both leave the ModelSet as it was.
C7_UnknownNamesRejected ==
    [][call'.op \in {"set_parameter_value", "set_parameter_fixed"}
       => LET model_name == call'.args[1]
              param_name == call'.args[2]
          IN /\ model_name \notin DOMAIN components
                  => (raised' = "KeyError" /\ UNCHANGED store)
             /\ (/\ model_name \in DOMAIN components
                 /\ param_name \notin Range(components[model_name].param_names))
                  => (raised' = "ValueError" /\ UNCHANGED store)]_vars

\* C7 witness: set_parameter_fixed was refused for a parameter that the
\* registered component does not have.
C7_Witness ==
    /\ call.op = "set_parameter_fixed"
    /\ raised = "ValueError"
    /\ call.args[1] \in DOMAIN components
    /\ call.args[2] \notin Range(components[call.args[1]].param_names)

\* the name a mass model is registered under
ResultingName(model, name) == IF name # None THEN name ELSE model.name

\* the names registered as mass components
MassNames(self) == {c \in DOMAIN self.mass_components : self.mass_components[c]}

\* C8: add_component of a mass model whose resulting name is the name of
\* an already registered mass component raises and leaves the ModelSet
\* unchanged.
C8_DuplicateMassNameRejected ==
    [][(/\ call'.op = "add_component"
        /\ call'.args[1].fittable
        /\ call'.args[1]._type = "mass"
        /\ ResultingName(call'.args[1], call'.args[2]) \in MassNames(ModelSet))
       => (raised' # "none" /\ UNCHANGED store)]_vars

\* C8 witness: a mass model was refused because its resulting name is
\* registered as a mass component.
C8_Witness ==
    /\ call.op = "add_component"
    /\ raised = "ValueError"
    /\ call.args[1]._type = "mass"
    /\ ResultingName(call.args[1], call.args[2]) \in MassNames(ModelSet)

\* C9: add_component(model, name=None) of a model whose own name is None
\* fails and registers nothing, whatever the kind of the model.
C9_UnnamedModelRejected ==
    [][(/\ call'.op = "add_component"
        /\ call'.args[2] = None
        /\ call'.args[1].name = None)
       => (raised' # "none" /\ UNCHANGED store /\ None \notin DOMAIN components')]_vars

\* C10: a successful add_component of a model with k parameters, f of them
\* not fixed, on a set with nparams = N and nparams_free = F appends the k
\* values to the full vector and the f non-fixed values to the free vector
\* in declared order, maps parameter i to full index N + i and to free
\* index F + (its rank among the non-fixed ones) or to the sentinel when
\* fixed, ends with nparams = N + k and nparams_free = F + f, and leaves
\* the vector entries and the index maps of the components registered
\* under other names as they were.
C10_AddAppends ==
    [][(call'.op = "add_component" /\ raised' = "none")
       => LET model == call'.args[1]
              nm == IF model._type = "mass"
                    THEN ResultingName(model, call'.args[2]) ELSE model.name
              pn == model.param_names
              k == Len(pn)
              freepos == {i \in 1..k : ~model.fixed[pn[i]]}
              N == nparams
              F == nparams_free
          IN /\ nparams' = N + k
             /\ Len(parameters') = N + k
             /\ nparams_free' = F + Cardinality(freepos)
             /\ Len(parameters_free') = F + Cardinality(freepos)
             /\ \A i \in 1..N : parameters'[i] = parameters[i]
             /\ \A i \in 1..F : parameters_free'[i] = parameters_free[i]
             /\ \A i \in 1..k :
                   /\ parameters'[N + i] = model.parameters[i]
                   /\ _param_keys'[nm][pn[i]] = N + i - 1
                   /\ IF i \in freepos
                      THEN LET rank == Cardinality({j \in freepos : j < i})
                           IN /\ _param_free_keys'[nm][pn[i]] = F + rank
                              /\ parameters_free'[F + rank + 1] = model.parameters[i]
                      ELSE _param_free_keys'[nm][pn[i]] = Sentinel
             /\ \A c \in (DOMAIN components) \ {nm} :
                   /\ c \in DOMAIN components'
                   /\ components'[c] = components[c]
                   /\ _param_keys'[c] = _param_keys[c]
                   /\ _param_free_keys'[c] = _param_free_keys[c]]_vars

\* C10 witness: a model with a fixed parameter followed by a free one was
\* added to a set that already had free parameters.
C10_Witness ==
    /\ call.op = "add_component"
    /\ raised = "none"
    /\ LET model == call.args[1]
           pn == model.param_names
       IN /\ nparams > Len(pn)
          /\ nparams_free > Cardinality({i \in 1..Len(pn) : ~model.fixed[pn[i]]})
          /\ \E i, j \in 1..Len(pn) : i < j /\ model.fixed[pn[i]] /\ ~model.fixed[pn[j]]

\* the registered pairs that own slot i of the full vector
FullOwners(self, i) == {cp \in RegisteredPairs(self) : FullIndex(self, cp) = i}

\* the registered pairs that own slot j of the free vector
FreeOwners(self, j) == {cp \in RegisteredPairs(self) : FreeIndex(self, cp) = j}

\* C11: in every reachable state the index maps are a bijection: a free
\* parameter has a free index in [0, nparams_free), a fixed one has the
\* sentinel, no two registered pairs share a full index or a free index,
\* and every slot of the full and of the free vector is owned by exactly
\* one registered pair.
C11_IndexMapsAreBijection ==
    /\ \A cp \in RegisteredPairs(ModelSet) :
          IF IsFixed(ModelSet, cp)
          THEN FreeIndex(ModelSet, cp) = Sentinel
          ELSE FreeIndex(ModelSet, cp) >= 0 /\ FreeIndex(ModelSet, cp) < nparams_free
    /\ \A cp, cq \in RegisteredPairs(ModelSet) :
          cp # cq =>
             /\ FullIndex(ModelSet, cp) # FullIndex(ModelSet, cq)
             /\ FreeIndex(ModelSet, cp) # Sentinel
                   => FreeIndex(ModelSet, cp) # FreeIndex(ModelSet, cq)
    /\ \A i \in 0..(Len(parameters) - 1) :
          Cardinality(FullOwners(ModelSet, i)) = 1
    /\ \A j \in 0..(Len(parameters_free) - 1) :
          Cardinality(FreeOwners(ModelSet, j)) = 1

\* C12: adding a geometry to a set that already has one replaces it: after
\* the call ModelSet.geometry is the new model, the old geometry is no
\* longer registered, and the full and free vectors hold the parameters of
\* exactly one geometry, so they grew by the new geometry's parameters
\* less the old one's.
C12_GeometryIsReplaced ==
    [][(/\ call'.op = "add_component"
        /\ raised' = "none"
        /\ call'.args[1]._type = "geometry"
        /\ geometry # NoGeometry)
       => LET model == call'.args[1]
              old == components[geometry]
              oldfree == Cardinality({p \in Range(old.param_names) : ~old.fixed[p]})
              newfree == Cardinality({p \in Range(model.param_names) : ~model.fixed[p]})
          IN /\ geometry' = model.name
             /\ components'[geometry'] = model
             /\ Cardinality({c \in DOMAIN components' :
                                components'[c]._type = "geometry"}) = 1
             /\ Len(parameters') =
                   Len(parameters) - Len(old.param_names) + Len(model.param_names)
             /\ Len(parameters_free') = Len(parameters_free) - oldfree + newfree]_vars

\* whether the registered parameter carries a tied resolver
IsTied(self, cp) == self.components[cp[1]].tied[cp[2]]

\* C13: no parameter that has a tied resolver occupies a slot of the free
\* vector: every registered tied parameter has the sentinel as its free
\* index.
C13_TiedNeverFree ==
    \A cp \in RegisteredPairs(ModelSet) :
        IsTied(ModelSet, cp) => FreeIndex(ModelSet, cp) = Sentinel

\* C14: a successful set_parameter_fixed(component, param, fix) changes
\* only the fixed flag of the named parameter: the registry differs from
\* the one before in that flag alone, and the full vector, the free vector
\* and its length, nparams, nparams_free and both index maps are unchanged.
C14_SetFixedChangesOnlyTheFlag ==
    [][(call'.op = "set_parameter_fixed" /\ raised' = "none")
       => LET model_name == call'.args[1]
              param_name == call'.args[2]
              fix == call'.args[3]
          IN /\ components' =
                   [components EXCEPT ![model_name].fixed[param_name] = fix]
             /\ UNCHANGED <<mass_components, geometry, parameters_is_None,
                            parameters, parameters_free, _param_keys,
                            _param_free_keys, key_order, nparams,
                            nparams_free>>]_vars

\* C14 witness: a parameter that holds a slot of the free vector was
\* fixed, and the flag is now True while the slot is still there.
C14_Witness ==
    /\ call.op = "set_parameter_fixed"
    /\ raised = "none"
    /\ call.args[3] = TRUE
    /\ IsFixed(ModelSet, <<call.args[1], call.args[2]>>)
    /\ FreeIndex(ModelSet, <<call.args[1], call.args[2]>>) # Sentinel
    /\ FreeIndex(ModelSet, <<call.args[1], call.args[2]>>) < Len(parameters_free)

(* ------------------------------- halos --------------------------------- *)
(* The dark-matter-fraction inversions of src/dysmalpy/models/halos.py.   *)
(* A float is m * 10^e with m = 0 or 10 <= |m| <= 99, so that comparisons  *)
(* with 0, 1e-10 and 1 are exact.  What the inversions compute through     *)
(* their collaborators is an argument of the model: baryons carries        *)
(* whether circular_velocity(r_fdm) is finite, numerics carries the signs  *)
(* of the trial values on the search grid (vtest, vtest_noAC), whether     *)
(* scipy's brentq converges, and whether a division by zero yields inf     *)
(* (numpy scalar) or raises (Python float).  A grid is the positions       *)
(* 1..GridLen; the collaborators a call has used are collected in used.    *)

\* number of points of a search grid (55, 100 and 50 in the code)
GridLen == 3

Float(m, e) == [m |-> m, e |-> e]

Zero == Float(0, 0)

One == Float(10, 0 - 1)

\* 1.e-10
Tiny == Float(10, 0 - 11)

Sign(x) == IF x.m < 0 THEN 0 - 1 ELSE IF x.m = 0 THEN 0 ELSE 1

\* x < y on floats
Less(x, y) ==
    IF Sign(x) # Sign(y) THEN Sign(x) < Sign(y)
    ELSE IF Sign(x) = 0 THEN FALSE
    ELSE IF Sign(x) = 1 THEN x.e < y.e \/ (x.e = y.e /\ x.m < y.m)
    ELSE y.e < x.e \/ (x.e = y.e /\ x.m < y.m)

\* fdm values: -0.5, 0, 5e-11, 1e-10, 0.5, 1, 1.5
FdmValues ==
    {Float(0 - 50, 0 - 2), Zero, Float(50, 0 - 12), Tiny,
     Float(50, 0 - 2), One, Float(15, 0 - 1)}

\* r_fdm in kpc
RadiusValues == {0 - 1, 0, 1}

\* the value a halo's own mvirial, conc, alpha or rB has; the trial values
\* of the inversions are the grid positions 1..GridLen
OwnValue0 == 0

\* a halo as the inversions see it: its class, fdm.value, bounds['fdm'] and
\* the values of its other parameters
Halo(class, fdm) ==
    [class |-> class, fdm |-> fdm, bounds_fdm |-> <<Zero, One>>,
     mvirial |-> OwnValue0, conc |-> OwnValue0, alpha |-> OwnValue0,
     rB |-> OwnValue0]

\* the baryonic component: whether circular_velocity(r_fdm) is finite
Baryons == {[vcirc_finite |-> f] : f \in BOOLEAN}

\* sign of a trial value that is NaN: neither < 0 nor > 0
NaNSign == 2

Vtests == [1..GridLen -> {0 - 1, 0, 1}]

AllOf(sign) == [i \in 1..GridLen |-> sign]

\* the grid results a call can meet
Numerics(adiabatic_contract) ==
    UNION {{[vtest |-> v, vtest_noAC |-> w, brentq |-> q, zero_division |-> z] :
                w \in IF adiabatic_contract THEN {v, AllOf(0 - 1), AllOf(1)} ELSE {v},
                q \in {"converges", "fails"},
                z \in {"inf", "raises"}} :
            v \in Vtests}

NaN == Value("nan", 0, 0)

Inf == Value("inf", 0, 0)

NegInf == Value("-inf", 0, 0)

\* what a halo method gives back: value, exception, collaborators used
HReturns(value, usd) == [value |-> value, raised |-> "none", used |-> usd]

HRaises(exc, usd) == [value |-> ReturnsNone, raised |-> exc, used |-> usd]

\* grid[vtest < 0] and grid[vtest > 0], as sets of positions
Negative(vtest) == {i \in 1..GridLen : vtest[i] = 0 - 1}

Positive(vtest) == {i \in 1..GridLen : vtest[i] = 1}

Last(S) == CHOOSE i \in S : \A j \in S : j <= i

First(S) == CHOOSE i \in S : \A j \in S : i <= j

\* scipy.optimize.brentq(f, a, b) with f known by its signs on the grid
brentq(vtest, a, b, outcome) ==
    IF vtest[a] # NaNSign /\ vtest[b] # NaNSign /\ vtest[a] * vtest[b] > 0
    THEN HRaises("ValueError", {"brentq"})
    ELSE IF vtest[a] = 0 THEN HReturns(Value("gridpoint", a, a), {"brentq"})
    ELSE IF vtest[b] = 0 THEN HReturns(Value("gridpoint", b, b), {"brentq"})
    ELSE IF outcome = "converges" THEN HReturns(Value("root", a, b), {"brentq"})
    ELSE HRaises("RuntimeError", {"brentq"})

\* the call went on to use more collaborators before r came back
After(usd, r) == [r EXCEPT !.used = usd \cup r.used]

\* fdm.value > bounds['fdm'][1] or fdm.value < bounds['fdm'][0]
out_of_bounds(self) ==
    Less(self.bounds_fdm[2], self.fdm) \/ Less(self.fdm, self.bounds_fdm[1])

\* the chain cut down to its bounds test
mvirial_edge_case_bounds_only(self, r_fdm) ==
    IF out_of_bounds(self) THEN "nan" ELSE "none"

\* the if/elif chain of calc_mvirial_from_fdm: the literal it returns, or
\* "none" when it goes on to the baryons
mvirial_edge_case(self, r_fdm) ==
    IF out_of_bounds(self) THEN "nan"
    ELSE IF self.fdm = One THEN "inf"
    ELSE IF self.fdm = Zero THEN "-inf"
    ELSE IF Less(self.fdm, Tiny) THEN "-inf"
    ELSE IF r_fdm < 0 THEN "nan"
    ELSE "none"

\* DarkMatterHalo.calc_mvirial_from_fdm
calc_mvirial_from_fdm(self, baryons, r_fdm, adiabatic_contract, numerics) ==
    IF mvirial_edge_case(self, r_fdm) # "none"
    THEN HReturns(Value(mvirial_edge_case(self, r_fdm), 0, 0), {})
    ELSE IF ~baryons.vcirc_finite THEN HReturns(NaN, {"baryons"})
    ELSE
      LET vtest == numerics.vtest
          vtest_noAC == numerics.vtest_noAC
          bracketed ==
              /\ Negative(vtest) # {} /\ Positive(vtest) # {}
              /\ adiabatic_contract =>
                    (Negative(vtest_noAC) # {} /\ Positive(vtest_noAC) # {})
      IN IF ~bracketed THEN HRaises("ValueError", {"baryons", "grid"})
         ELSE
           LET mvirial == brentq(vtest, Last(Negative(vtest)),
                                 First(Positive(vtest)), numerics.brentq)
               mvirial_noAC == brentq(vtest_noAC, Last(Negative(vtest_noAC)),
                                      First(Positive(vtest_noAC)), numerics.brentq)
           IN IF adiabatic_contract /\ mvirial.raised = "none"
                 /\ mvirial_noAC.raised # "none"
              THEN After({"baryons", "grid"}, mvirial_noAC)
              ELSE After({"baryons", "grid"}, mvirial)

\* DekelZhao.calc_mvirial_from_fdm: the override repeats the statements of
\* the base class
DekelZhao_calc_mvirial_from_fdm(self, baryons, r_fdm, adiabatic_contract, numerics) ==
    calc_mvirial_from_fdm(self, baryons, r_fdm, adiabatic_contract, numerics)

\* str.lower() on the Einasto_param strings that are passed
Lower(str) ==
    CASE str = "nEinasto" -> "neinasto"
      [] str = "NEINASTO" -> "neinasto"
      [] str = "alphaEinasto" -> "alphaeinasto"
      [] str = "None" -> "none"
      [] OTHER -> str

\* the Einasto_param and shape arguments given to the constructor; a shape
\* argument is None or a number, of which only "is None" is read
EinastoParamArgs == {None, "nEinasto", "NEINASTO", "alphaEinasto", "shape"}

ShapeArgs == {None, "2.0"}

\* the instance after super().__init__(**kwargs), which is not handed the
\* nEinasto and alphaEinasto arguments: the declared defaults and fixed
\* flags, no ties
Einasto_declared ==
    [Einasto_param |-> None,
     value |-> [nEinasto |-> "1.0", alphaEinasto |-> "-99."],
     fixed |-> [nEinasto |-> FALSE, alphaEinasto |-> TRUE],
     tied |-> [nEinasto |-> FALSE, alphaEinasto |-> FALSE]]

\* the first check with its test dropped
neither_given_ignored(alphaEinasto, nEinasto) == FALSE

\* (alphaEinasto is None) & (nEinasto is None)
neither_given(alphaEinasto, nEinasto) == alphaEinasto = None /\ nEinasto = None

\* Einasto.__init__
Einasto__init__(Einasto_param, alphaEinasto, nEinasto) ==
    IF neither_given(alphaEinasto, nEinasto) THEN Raises(Einasto_declared, "ValueError")
    ELSE IF alphaEinasto # None /\ nEinasto # None /\ Einasto_param = "None"
    THEN Raises(Einasto_declared, "ValueError")
    ELSE IF Lower(Einasto_param) = "neinasto" \/ alphaEinasto = None
    THEN Returns([Einasto_declared EXCEPT !.Einasto_param = "nEinasto",
                                          !.fixed.alphaEinasto = FALSE,
                                          !.tied.alphaEinasto = TRUE])
    ELSE IF Lower(Einasto_param) = "alphaeinasto" \/ nEinasto = None
    THEN Returns([Einasto_declared EXCEPT !.Einasto_param = "alphaEinasto",
                                          !.fixed.nEinasto = FALSE,
                                          !.tied.nEinasto = TRUE])
    ELSE Raises(Einasto_declared, "ValueError")

\* vsqr_bar_re / (1./self.fdm - 1) in the shape inversions, which test
\* the bounds only: what kind of number it is, or "raises" when a Python
\* float is divided by zero
target(self, baryons, numerics) ==
    IF self.fdm = Zero \/ self.fdm = One
    THEN IF numerics.zero_division = "raises" THEN "raises"
         ELSE IF ~baryons.vcirc_finite THEN "nan"
         ELSE IF self.fdm = Zero THEN "zero" ELSE "inf"
    ELSE IF baryons.vcirc_finite THEN "finite" ELSE "nan"

\* signs of circular_velocity(r_fdm)**2 - vtarget on the grid
trial_signs(tgt, numerics) ==
    IF tgt = "inf" THEN AllOf(0 - 1)
    ELSE IF tgt = "nan" THEN AllOf(NaNSign)
    ELSE IF tgt = "zero"
    THEN [i \in 1..GridLen |-> IF numerics.vtest[i] < 0 THEN 0 ELSE numerics.vtest[i]]
    ELSE numerics.vtest

\* the nested try/except of calc_alpha_from_fdm and calc_nEinasto_from_fdm:
\* the bracket <<a, b>>, forced from the grid edges when a side is missing
bracket_forced_high(vtest) ==
    IF Negative(vtest) # {}
    THEN IF Positive(vtest) # {}
         THEN <<Last(Negative(vtest)), First(Positive(vtest))>>
         ELSE <<GridLen - 1, GridLen>>
    ELSE <<1, 2>>

\* the nested try/except of calc_rB_from_fdm
bracket_forced_low(vtest) ==
    IF Negative(vtest) # {}
    THEN IF Positive(vtest) # {}
         THEN <<Last(Negative(vtest)), First(Positive(vtest))>>
         ELSE <<1, 2>>
    ELSE <<GridLen - 1, GridLen>>

\* TwoPowerHalo.calc_alpha_from_fdm
calc_alpha_from_fdm(self, baryons, r_fdm, numerics) ==
    IF out_of_bounds(self) THEN HReturns(NaN, {})
    ELSE IF target(self, baryons, numerics) = "raises"
    THEN HRaises("ZeroDivisionError", {"baryons"})
    ELSE LET vtest == trial_signs(target(self, baryons, numerics), numerics)
             ab == bracket_forced_high(vtest)
         IN After({"baryons", "grid"}, brentq(vtest, ab[1], ab[2], numerics.brentq))

\* Burkert.calc_rB_from_fdm
calc_rB_from_fdm(self, baryons, r_fdm, numerics) ==
    IF out_of_bounds(self) THEN HReturns(NaN, {})
    ELSE IF target(self, baryons, numerics) = "raises"
    THEN HRaises("ZeroDivisionError", {"baryons"})
    ELSE LET vtest == trial_signs(target(self, baryons, numerics), numerics)
             ab == bracket_forced_low(vtest)
             rB == brentq(vtest, ab[1], ab[2], numerics.brentq)
         IN IF rB.raised = "none" THEN After({"baryons", "grid"}, rB)
            ELSE HReturns(Value("average", ab[1], ab[2]), {"baryons", "grid", "brentq"})

\* Einasto.calc_nEinasto_from_fdm: each trial halo is constructed with both
\* shape parameters and no Einasto_param; past the root finder the result
\* is assigned to alpha and the unassigned nEinasto is returned
calc_nEinasto_from_fdm(self, baryons, r_fdm, numerics) ==
    IF out_of_bounds(self) THEN HReturns(NaN, {})
    ELSE IF target(self, baryons, numerics) = "raises"
    THEN HRaises("ZeroDivisionError", {"baryons"})
    ELSE IF Einasto__init__(None, "2.0", "2.0").raised # "none"
    THEN HRaises(Einasto__init__(None, "2.0", "2.0").raised, {"baryons", "grid"})
    ELSE LET vtest == trial_signs(target(self, baryons, numerics), numerics)
             ab == bracket_forced_high(vtest)
             alpha == brentq(vtest, ab[1], ab[2], numerics.brentq)
         IN IF alpha.raised # "none" THEN After({"baryons", "grid"}, alpha)
            ELSE HRaises("UnboundLocalError", {"baryons", "grid", "brentq"})

\* Einasto.calc_alphaEinasto_from_fdm
calc_alphaEinasto_from_fdm(self, baryons, r_fdm, numerics) ==
    LET nEinasto == calc_nEinasto_from_fdm(self, baryons, r_fdm, numerics)
    IN IF nEinasto.raised # "none" THEN nEinasto
       ELSE IF nEinasto.value.kind \notin {"nan", "inf", "-inf"}
       THEN [nEinasto EXCEPT !.value.kind = "inverse"]
       ELSE [nEinasto EXCEPT !.value = NaN]

\* the halo classes
HaloClasses == {"NFW", "TwoPowerHalo", "Burkert", "Einasto", "DekelZhao", "LinearNFW"}

\* self.circular_velocity(r): a value that depends on the halo and on r
circular_velocity(self, r) ==
    [kind |-> "circular_velocity", a |-> r, b |-> 0, halo |-> self]

\* velocity_profile that does not look at the flag
velocity_profile_ignoring_flag(self, r, model) ==
    HReturns(circular_velocity(self, r), {"circular_velocity"})

\* DarkMatterHalo.velocity_profile
velocity_profile(self, r, model) ==
    IF model.kinematic_options.adiabatic_contract
    THEN HRaises("NotImplementedError", {})
    ELSE HReturns(circular_velocity(self, r), {"circular_velocity"})

\* The residual functions of calc_mvirial_from_fdm, as the statements they
\* execute in order.
\* DarkMatterHalo._minfunc_vdm_mvir_from_fdm
_minfunc_vdm_mvir_from_fdm ==
    <<"self.copy", "setattr mvirial", "halotmp.circular_velocity">>

\* DarkMatterHalo._minfunc_vdm_mvir_from_fdm_AC
_minfunc_vdm_mvir_from_fdm_AC ==
    <<"self.copy", "setattr mvirial", "ModelSet", "add_component bary",
      "add_component halotmp", "adiabatic_contract = True",
      "adiabatic_contract_modify_small_values = True",
      "modtmp.circular_velocity">>

\* DekelZhao._minfunc_vdm_mvir_from_fdm
DekelZhao_minfunc_vdm_mvir_from_fdm ==
    <<"self.copy", "setattr mvirial", "ModelSet", "add_component bary",
      "add_component halotmp", "adiabatic_contract = False",
      "_update_tied_parameters", "halo.circular_velocity">>

\* DekelZhao._minfunc_vdm_mvir_from_fdm_AC
DekelZhao_minfunc_vdm_mvir_from_fdm_AC ==
    <<"self.copy", "setattr mvirial", "ModelSet", "add_component bary",
      "add_component halotmp", "adiabatic_contract = True",
      "adiabatic_contract_modify_small_values = True",
      "_update_tied_parameters", "modtmp.circular_velocity">>

\* the statements that evaluate a circular velocity
VelocityEvaluations ==
    {"halotmp.circular_velocity", "halo.circular_velocity", "modtmp.circular_velocity"}

\* the residual function a halo class runs at a trial mvirial
residual(self, adiabatic_contract) ==
    IF self.class = "DekelZhao"
    THEN IF adiabatic_contract THEN DekelZhao_minfunc_vdm_mvir_from_fdm_AC
         ELSE DekelZhao_minfunc_vdm_mvir_from_fdm
    ELSE IF adiabatic_contract THEN _minfunc_vdm_mvir_from_fdm_AC
         ELSE _minfunc_vdm_mvir_from_fdm

\* Enclosed mass and circular velocity at a radius.  A number is kept by
\* its kind, "zero", "pos", "inf" or "nan", which is all that IEEE
\* arithmetic needs to tell what a product, quotient or power at r = 0 is.
KindOf(n) == IF n = 0 THEN "zero" ELSE "pos"

\* a * b
Times(a, b) ==
    IF a = "nan" \/ b = "nan" THEN "nan"
    ELSE IF {a, b} = {"zero", "inf"} THEN "nan"
    ELSE IF "zero" \in {a, b} THEN "zero"
    ELSE IF "inf" \in {a, b} THEN "inf"
    ELSE "pos"

\* a / b: 0/0 and inf/inf are NaN, x/0 is inf
Over(a, b) ==
    IF a = "nan" \/ b = "nan" THEN "nan"
    ELSE IF a = b /\ a \in {"zero", "inf"} THEN "nan"
    ELSE IF b = "zero" THEN "inf"
    ELSE IF b = "inf" THEN "zero"
    ELSE a

\* a ** p for a >= 0 and an integer exponent p: 0**0 is 1, 0**p is inf
\* for p < 0
Power(a, p) ==
    IF a = "nan" THEN "nan"
    ELSE IF p = 0 THEN "pos"
    ELSE IF p > 0 THEN a
    ELSE Over("pos", a)

\* the mass profiles: the class and the inner slope, which is alpha of a
\* TwoPowerHalo (bounds (0, 3) in the test setup), a of calc_a_c for a
\* DekelZhao, and not a parameter of the others
MassProfile(class, slope) == [class |-> class, slope |-> slope]

MassProfiles ==
    {MassProfile(class, 0) :
        class \in {"Sersic", "models.NFW", "NFW", "Burkert", "Einasto", "LinearNFW"}}
    \cup {MassProfile("TwoPowerHalo", alpha) : alpha \in {0, 1, 3}}
    \cup {MassProfile("DekelZhao", a) : a \in {0, 1, 2}}

\* the radii at which a profile is evaluated, in kpc
ProfileRadii == {0, 1, 2}

\* enclosed_mass(r) of each profile class
enclosed_mass(self, r) ==
    CASE self.class = "Sersic" ->
            \* norm * gammainc(2n, bn*(r/r_eff)**(1/n))
            Times("pos", Power(KindOf(r), 1))
      [] self.class \in {"models.NFW", "NFW", "LinearNFW"} ->
            \* aa * (log((rs + r)/rs) - r/(rs + r))
            Times("pos", KindOf(r))
      [] self.class = "TwoPowerHalo" ->
            \* 10**mvirial * (r/rvirial)**(3 - alpha) * hyp2f1(..)/hyp2f1(..)
            Times(Times("pos", Power(KindOf(r), 3 - self.slope)), "pos")
      [] self.class = "Burkert" ->
            \* 10**mvirial / I(rvir) * I(r)
            Times("pos", KindOf(r))
      [] self.class = "Einasto" ->
            \* 4 pi rho0 h**3 n * gammainc(3n, 2n*(r/rs)**(1/n)) * gamma(3n)
            Times("pos", Power(KindOf(r), 1))
      [] self.class = "DekelZhao" ->
            \* mu * mvir / (x**(a - 3) * (1 + sqrt(x))**(2*(3 - a)))
            Over("pos", Times(Power(KindOf(r), self.slope - 3), "pos"))

\* MassModel.circular_velocity: sqrt(G * mass_enc * Msun / (r * 1000 * pc)) / 1e5
MassModel_circular_velocity(self, r) ==
    Over(Over(Times(Times("pos", enclosed_mass(self, r)), "pos"),
              Times(Times(KindOf(r), "pos"), "pos")),
         "pos")

\* Geometry of models/geometry.py.  Coordinates, shifts, cosines and sines
\* are exact fractions <<numerator, denominator>> in lowest terms.
Abs(n) == IF n < 0 THEN 0 - n ELSE n

RECURSIVE GCD(_, _)
GCD(a, b) == IF b = 0 THEN a ELSE GCD(b, a % b)

Rational(n, d) == <<n \div GCD(Abs(n), d), d \div GCD(Abs(n), d)>>

Plus(p, q) == Rational(p[1] * q[2] + q[1] * p[2], p[2] * q[2])

Neg(p) == <<0 - p[1], p[2]>>

Minus(p, q) == Plus(p, Neg(q))

Mul(p, q) == Rational(p[1] * q[1], p[2] * q[2])

\* an angle in degrees, known by its cosine and sine
Angle(c, s, d) == [cos |-> Rational(c, d), sin |-> Rational(s, d)]

\* inc within its bounds (0, 90): 0, 36.87.., 53.13.., 90 degrees
IncValues == {Angle(1, 0, 1), Angle(4, 3, 5), Angle(3, 4, 5), Angle(0, 1, 1)}

\* pa within its bounds (-180, 180): 0, 53.13.., 90, 143.13.., 180, -90
PaValues ==
    {Angle(1, 0, 1), Angle(3, 4, 5), Angle(0, 1, 1), Angle(0 - 4, 3, 5),
     Angle(0 - 1, 0, 1), Angle(0, 0 - 1, 1)}

\* pa - 90.
Minus90(pa) == [cos |-> pa.sin, sin |-> Neg(pa.cos)]

ShiftValues == {Rational(0, 1), Rational(1, 1), Rational(0 - 3, 2)}

CoordValues == {Rational(0 - 1, 1), Rational(0, 1), Rational(2, 1)}

Points == {<<x, y, z>> : x \in CoordValues, y \in CoordValues, z \in CoordValues}

\* a Geometry instance with its parameter values
Geometry(inc, pa, xshift, yshift) ==
    [inc |-> inc, pa |-> pa, xshift |-> xshift, yshift |-> yshift,
     vel_shift |-> Rational(0, 1)]

\* an optional argument: left at None, or given
NoArg == <<>>

Given(v) == <<v>>

\* if arg is None: arg = self.<parameter>
OrOwn(arg, own) == IF arg = NoArg THEN own ELSE arg[1]

\* Geometry.evaluate
evaluate(x, y, z, inc, pa, xshift, yshift, vel_shift) ==
    LET pa90 == Minus90(pa)
        xsky == Minus(x, xshift)
        ysky == Minus(y, yshift)
        zsky == z
        xtmp == Plus(Mul(xsky, pa90.cos), Mul(ysky, pa90.sin))
        ytmp == Plus(Mul(Neg(xsky), pa90.sin), Mul(ysky, pa90.cos))
        ztmp == zsky
        xgal == xtmp
        ygal == Minus(Mul(ytmp, inc.cos), Mul(ztmp, inc.sin))
        zgal == Plus(Mul(ytmp, inc.sin), Mul(ztmp, inc.cos))
    IN <<xgal, ygal, zgal>>

\* the coordinates a Geometry method returns
Coords(xyz) == [kind |-> "coords", a |-> 0, b |-> 0, xyz |-> xyz]

\* Geometry.coord_transform: the last argument of its call of evaluate
\* reads the attribute vel_shit of self
coord_transform(self, x, y, z, inc, pa, xshift, yshift) ==
    IF "vel_shit" \notin DOMAIN self THEN HRaises("AttributeError", {})
    ELSE HReturns(Coords(evaluate(x, y, z, OrOwn(inc, self.inc), OrOwn(pa, self.pa),
                                  OrOwn(xshift, self.xshift),
                                  OrOwn(yshift, self.yshift), self.vel_shit)), {})

\* the inclination applied in the direction of evaluate
apply_inclination_forward(ygal, zgal, inc) ==
    <<Minus(Mul(ygal, inc.cos), Mul(zgal, inc.sin)),
      Plus(Mul(ygal, inc.sin), Mul(zgal, inc.cos))>>

\* inverse_coord_transform, "Apply inclination": <<ytmp, ztmp>>
apply_inclination(ygal, zgal, inc) ==
    <<Plus(Mul(ygal, inc.cos), Mul(zgal, inc.sin)),
      Plus(Mul(Neg(ygal), inc.sin), Mul(zgal, inc.cos))>>

\* Geometry.inverse_coord_transform
inverse_coord_transform(self, xgal, ygal, zgal, inc, pa, xshift, yshift) ==
    LET pa90 == Minus90(OrOwn(pa, self.pa))
        xtmp == xgal
        ytmp == apply_inclination(ygal, zgal, OrOwn(inc, self.inc))[1]
        ztmp == apply_inclination(ygal, zgal, OrOwn(inc, self.inc))[2]
        xsky == Plus(Minus(Mul(xtmp, pa90.cos), Mul(ytmp, pa90.sin)),
                     OrOwn(xshift, self.xshift))
        ysky == Plus(Plus(Mul(xtmp, pa90.sin), Mul(ytmp, pa90.cos)),
                     OrOwn(yshift, self.yshift))
        zsky == ztmp
    IN HReturns(Coords(<<xsky, ysky, zsky>>), {})

\* The objects a residual function works with: the halo it is a method of
\* and the trial halo it builds.
Objects(self) == [self |-> self, halotmp |-> NoHalo]

\* a residual function whose trial value is written to the halo itself
set_trial_on_self(objs, param, trial) ==
    [objs EXCEPT !.self = [objs.self EXCEPT ![param] = trial]]

\* one evaluation of a residual function at a trial value of param:
\* _minfunc_vdm_mvir_from_fdm and _minfunc_vdm_mvir_from_fdm_AC set it on
\* self.copy(); _minfunc_vdm_alpha_from_fdm and _minfunc_vdm_rB_from_fDM
\* construct a new halo from the values they are passed
set_trial(objs, param, trial) ==
    IF param = "mvirial"
    THEN [objs EXCEPT !.halotmp = [objs.self EXCEPT !.mvirial = trial]]
    ELSE IF param = "alpha"
    THEN [objs EXCEPT !.halotmp =
            [Halo("TwoPowerHalo", Float(0 - 99, 0))
                EXCEPT !.mvirial = objs.self.mvirial, !.conc = objs.self.conc,
                       !.alpha = trial]]
    ELSE [objs EXCEPT !.halotmp =
            [Halo("Burkert", Float(0 - 99, 0))
                EXCEPT !.mvirial = objs.self.mvirial, !.rB = trial]]

RECURSIVE after_trials(_, _, _)
\* the objects after the residual was evaluated at each of trials in turn
after_trials(objs, param, trials) ==
    IF trials = <<>> THEN objs
    ELSE after_trials(set_trial(objs, param, Head(trials)), param, Tail(trials))

\* the trial values of a call that came back with r: the grid, once more
\* for the uncontracted residual under adiabatic contraction, and then the
\* ends of the bracket handed to brentq
trials_of(r, adiabatic_contract, ab) ==
    IF "grid" \notin r.used THEN <<>>
    ELSE [i \in 1..GridLen |-> i]
         \o (IF adiabatic_contract THEN [i \in 1..GridLen |-> i] ELSE <<>>)
         \o (IF "brentq" \in r.used THEN ab ELSE <<>>)

\* r together with the halo as the call leaves it
WithSelf(r, objs) ==
    [value |-> r.value, raised |-> r.raised, used |-> r.used, self |-> objs.self]

\* the pending call of op is made and comes back with r
HaloCall(op, r) ==
    /\ ncalls = 0
    /\ call.op = op
    /\ ncalls' = 1
    /\ raised' = r.raised
    /\ returned' = r.value
    /\ used' = r.used
    /\ halo' = IF "self" \in DOMAIN r THEN r.self ELSE halo
    /\ UNCHANGED <<store, call>>

\* a call of calc_mvirial_from_fdm is about to be made
CalcMvirialCall ==
    \E class \in {"NFW", "DekelZhao"}, fdm \in FdmValues, baryons \in Baryons,
       r_fdm \in RadiusValues, adiabatic_contract \in BOOLEAN :
    \E numerics \in Numerics(adiabatic_contract) :
        call = Call("calc_mvirial_from_fdm",
                    <<Halo(class, fdm), baryons, r_fdm, adiabatic_contract, numerics>>)

CalcMvirialFromFdm ==
    LET r == IF call.args[1].class = "DekelZhao"
             THEN DekelZhao_calc_mvirial_from_fdm(call.args[1], call.args[2],
                                    call.args[3], call.args[4], call.args[5])
             ELSE calc_mvirial_from_fdm(call.args[1], call.args[2],
                                    call.args[3], call.args[4], call.args[5])
        vtest == call.args[5].vtest
        ab == IF Negative(vtest) # {} /\ Positive(vtest) # {}
              THEN <<Last(Negative(vtest)), First(Positive(vtest))>> ELSE <<>>
    IN HaloCall("calc_mvirial_from_fdm",
                WithSelf(r, after_trials(Objects(halo), "mvirial",
                                         trials_of(r, call.args[4], ab))))

\* an Einasto halo is about to be constructed
EinastoCall ==
    \E Einasto_param \in EinastoParamArgs, alphaEinasto \in ShapeArgs,
       nEinasto \in ShapeArgs :
        call = Call("Einasto", <<Einasto_param, alphaEinasto, nEinasto>>)

\* Einasto(...): the constructed instance is what comes back
EinastoInit ==
    LET r == Einasto__init__(call.args[1], call.args[2], call.args[3])
    IN HaloCall("Einasto",
                [value |-> [kind |-> "Einasto", a |-> 0, b |-> 0,
                            Einasto_param |-> r.self.Einasto_param,
                            value |-> r.self.value,
                            fixed |-> r.self.fixed, tied |-> r.self.tied],
                 raised |-> r.raised, used |-> {}])

\* the shape inversion of a halo class
ShapeInversion ==
    [TwoPowerHalo |-> "calc_alpha_from_fdm", Burkert |-> "calc_rB_from_fdm",
     Einasto |-> "calc_nEinasto_from_fdm"]

\* a shape inversion is about to be called
ShapeInversionCall ==
    \E class \in DOMAIN ShapeInversion, fdm \in FdmValues, baryons \in Baryons,
       r_fdm \in RadiusValues, numerics \in Numerics(FALSE) :
        \/ call = Call(ShapeInversion[class],
                       <<Halo(class, fdm), baryons, r_fdm, numerics>>)
        \/ /\ class = "Einasto"
           /\ call = Call("calc_alphaEinasto_from_fdm",
                          <<Halo(class, fdm), baryons, r_fdm, numerics>>)

CalcAlphaFromFdm ==
    LET r == calc_alpha_from_fdm(call.args[1], call.args[2], call.args[3], call.args[4])
        ab == bracket_forced_high(
                  trial_signs(target(call.args[1], call.args[2], call.args[4]),
                              call.args[4]))
    IN HaloCall("calc_alpha_from_fdm",
                WithSelf(r, after_trials(Objects(halo), "alpha",
                                         trials_of(r, FALSE, ab))))

CalcRBFromFdm ==
    LET r == calc_rB_from_fdm(call.args[1], call.args[2], call.args[3], call.args[4])
        ab == bracket_forced_low(
                  trial_signs(target(call.args[1], call.args[2], call.args[4]),
                              call.args[4]))
    IN HaloCall("calc_rB_from_fdm",
                WithSelf(r, after_trials(Objects(halo), "rB",
                                         trials_of(r, FALSE, ab))))

CalcNEinastoFromFdm ==
    HaloCall("calc_nEinasto_from_fdm",
             calc_nEinasto_from_fdm(call.args[1], call.args[2], call.args[3], call.args[4]))

CalcAlphaEinastoFromFdm ==
    HaloCall("calc_alphaEinasto_from_fdm",
             calc_alphaEinasto_from_fdm(call.args[1], call.args[2], call.args[3],
                                        call.args[4]))

\* velocity_profile is about to be called
VelocityProfileCall ==
    \E class \in HaloClasses, fdm \in FdmValues, r \in RadiusValues,
       adiabatic_contract \in BOOLEAN :
        call = Call("velocity_profile",
                    <<Halo(class, fdm), r,
                      [kinematic_options |->
                          [adiabatic_contract |-> adiabatic_contract]]>>)

VelocityProfile ==
    HaloCall("velocity_profile",
             velocity_profile(call.args[1], call.args[2], call.args[3]))

\* a residual function is about to be called at a trial mvirial
ResidualCall ==
    \E class \in HaloClasses \ {"LinearNFW"}, fdm \in FdmValues,
       mvirial \in 1..GridLen, r_fdm \in RadiusValues,
       adiabatic_contract \in BOOLEAN :
        call = Call("_minfunc_vdm_mvir_from_fdm",
                    <<Halo(class, fdm), mvirial, r_fdm, adiabatic_contract>>)

\* the residual comes back, with the statements it executed
Residual ==
    HaloCall("_minfunc_vdm_mvir_from_fdm",
             HReturns([kind |-> "residual", a |-> call.args[2], b |-> 0,
                       steps |-> residual(call.args[1], call.args[4])], {}))

\* enclosed_mass or circular_velocity of a profile is about to be called;
\* circular_velocity is that of the classes of models.py
ProfileCall ==
    \E self \in MassProfiles, r \in ProfileRadii :
        \/ call = Call("enclosed_mass", <<self, r>>)
        \/ /\ self.class \in {"Sersic", "models.NFW"}
           /\ call = Call("circular_velocity", <<self, r>>)

EnclosedMass ==
    HaloCall("enclosed_mass",
             HReturns(Value(enclosed_mass(call.args[1], call.args[2]), 0, 0), {}))

CircularVelocity ==
    HaloCall("circular_velocity",
             HReturns(Value(MassModel_circular_velocity(call.args[1], call.args[2]), 0, 0),
                      {}))

\* a Geometry method is about to be called; an argument that overrides a
\* parameter is None or a value other than the instance's own
GeometryCall ==
    \E inc \in IncValues, pa \in PaValues, xshift \in ShiftValues,
       yshift \in ShiftValues, p \in Points :
        \/ call = Call("evaluate",
                       <<p[1], p[2], p[3], inc, pa, xshift, yshift, Rational(0, 1)>>)
        \/ \E op \in {"coord_transform", "inverse_coord_transform"},
              inc_arg \in {NoArg, Given(Angle(3, 4, 5))},
              pa_arg \in {NoArg, Given(Angle(0, 1, 1))},
              shift_arg \in {NoArg, Given(Rational(1, 1))} :
                call = Call(op, <<Geometry(inc, pa, xshift, yshift), p[1], p[2], p[3],
                                  inc_arg, pa_arg, shift_arg, NoArg>>)

GeometryEvaluate ==
    HaloCall("evaluate",
             HReturns(Coords(evaluate(call.args[1], call.args[2], call.args[3],
                                      call.args[4], call.args[5], call.args[6],
                                      call.args[7], call.args[8])), {}))

CoordTransform ==
    HaloCall("coord_transform",
             coord_transform(call.args[1], call.args[2], call.args[3], call.args[4],
                             call.args[5], call.args[6], call.args[7], call.args[8]))

InverseCoordTransform ==
    HaloCall("inverse_coord_transform",
             inverse_coord_transform(call.args[1], call.args[2], call.args[3],
                                     call.args[4], call.args[5], call.args[6],
                                     call.args[7], call.args[8]))

\* the calls whose first argument is the halo they are made on
HaloMethods ==
    {"calc_mvirial_from_fdm", "calc_alpha_from_fdm", "calc_rB_from_fdm",
     "calc_nEinasto_from_fdm", "calc_alphaEinasto_from_fdm", "velocity_profile",
     "_minfunc_vdm_mvir_from_fdm"}

HaloCallPending ==
    \/ CalcMvirialCall
    \/ EinastoCall
    \/ ShapeInversionCall
    \/ VelocityProfileCall
    \/ ResidualCall
    \/ ProfileCall
    \/ GeometryCall

\* a halo method is about to be called
InitHalo ==
    /\ components = ModelSet__init__.components
    /\ mass_components = ModelSet__init__.mass_components
    /\ geometry = ModelSet__init__.geometry
    /\ parameters_is_None = ModelSet__init__.parameters_is_None
    /\ parameters = ModelSet__init__.parameters
    /\ parameters_free = ModelSet__init__.parameters_free
    /\ _param_keys = ModelSet__init__._param_keys
    /\ _param_free_keys = ModelSet__init__._param_free_keys
    /\ key_order = ModelSet__init__.key_order
    /\ nparams = ModelSet__init__.nparams
    /\ nparams_free = ModelSet__init__.nparams_free
    /\ raised = "none"
    /\ HaloCallPending
    /\ halo = IF call.op \in HaloMethods THEN call.args[1] ELSE NoHalo
    /\ ncalls = 0
    /\ returned = ReturnsNone
    /\ used = {}

NextHalo ==
    \/ CalcMvirialFromFdm
    \/ EinastoInit
    \/ CalcAlphaFromFdm
    \/ CalcRBFromFdm
    \/ CalcNEinastoFromFdm
    \/ CalcAlphaEinastoFromFdm
    \/ VelocityProfile
    \/ Residual
    \/ EnclosedMass
    \/ CircularVelocity
    \/ GeometryEvaluate
    \/ CoordTransform
    \/ InverseCoordTransform

SpecHalo == InitHalo /\ [][NextHalo]_vars

\* the pending call of op has been made
Completed(op) == ncalls = 1 /\ call.op = op

\* C15: calc_mvirial_from_fdm, of DarkMatterHalo and of DekelZhao, returns
\* the edge-case literal without evaluating the baryons, searching the
\* grid or calling the root finder: NaN when fdm is outside [0, 1],
\* +infinity when fdm == 1, -infinity when fdm == 0 or 0 <= fdm < 1e-10.
C15_MvirialEdgeCasesDirect ==
    Completed("calc_mvirial_from_fdm") =>
        LET fdm == call.args[1].fdm
            direct(literal) ==
                raised = "none" /\ returned = literal /\ used = {}
        IN /\ (Less(One, fdm) \/ Less(fdm, Zero)) => direct(NaN)
           /\ fdm = One => direct(Inf)
           /\ (fdm = Zero \/ (~Less(fdm, Zero) /\ Less(fdm, Tiny))) => direct(NegInf)

\* C15 witness: the DekelZhao override was asked for a positive fdm below
\* 1e-10 with finite baryons and a bracketing grid, and returned -infinity.
C15_Witness ==
    /\ Completed("calc_mvirial_from_fdm")
    /\ call.args[1].class = "DekelZhao"
    /\ Less(Zero, call.args[1].fdm)
    /\ Less(call.args[1].fdm, Tiny)
    /\ call.args[2].vcirc_finite
    /\ Negative(call.args[5].vtest) # {}
    /\ Positive(call.args[5].vtest) # {}
    /\ returned = NegInf

\* C19: constructing an Einasto halo raises when neither nEinasto nor
\* alphaEinasto is given and when both are given with Einasto_param left
\* at its default; a construction that succeeds ends with exactly one of
\* the two shape parameters tied and Einasto_param naming the other one.
C19_EinastoConstruction ==
    Completed("Einasto") =>
        LET Einasto_param == call.args[1]
            alphaEinasto == call.args[2]
            nEinasto == call.args[3]
        IN /\ (alphaEinasto = None /\ nEinasto = None) => raised # "none"
           /\ (alphaEinasto # None /\ nEinasto # None /\ Einasto_param = None)
                 => raised # "none"
           /\ raised = "none" =>
                 \/ /\ returned.Einasto_param = "nEinasto"
                    /\ returned.tied.alphaEinasto /\ ~returned.tied.nEinasto
                 \/ /\ returned.Einasto_param = "alphaEinasto"
                    /\ returned.tied.nEinasto /\ ~returned.tied.alphaEinasto

\* C19 witness: both shape parameters were given and Einasto_param named
\* alphaEinasto; the construction succeeded with nEinasto tied.
C19_Witness ==
    /\ Completed("Einasto")
    /\ call.args[2] # None
    /\ call.args[3] # None
    /\ raised = "none"
    /\ returned.Einasto_param = "alphaEinasto"
    /\ returned.tied.nEinasto

\* the methods that invert a dark matter fraction
ShapeInversions ==
    {"calc_alpha_from_fdm", "calc_rB_from_fdm", "calc_nEinasto_from_fdm"}

Inversions == ShapeInversions \cup {"calc_mvirial_from_fdm"}

\* a call of one of the methods in ops has been made
CompletedOneOf(ops) == ncalls = 1 /\ call.op \in ops

\* the numerics argument of an inversion call is its last one
NumericsOf(c) == c.args[Len(c.args)]

\* C16: calc_alpha_from_fdm, calc_rB_from_fdm and calc_nEinasto_from_fdm
\* return the edge-case literal without root finding: NaN when fdm is
\* outside [0, 1], +infinity when fdm == 1, -infinity when fdm == 0 or
\* 0 <= fdm < 1e-10.
C16_ShapeEdgeCasesDirect ==
    CompletedOneOf(ShapeInversions) =>
        LET fdm == call.args[1].fdm
            direct(literal) ==
                raised = "none" /\ returned = literal /\ "brentq" \notin used
        IN /\ (Less(One, fdm) \/ Less(fdm, Zero)) => direct(NaN)
           /\ fdm = One => direct(Inf)
           /\ (fdm = Zero \/ (~Less(fdm, Zero) /\ Less(fdm, Tiny))) => direct(NegInf)

\* C17: calc_mvirial_from_fdm returns NaN whenever r_fdm < 0, whatever the
\* value of fdm.
C17_NegativeRadiusIsNaN ==
    (Completed("calc_mvirial_from_fdm") /\ call.args[3] < 0)
        => (raised = "none" /\ returned = NaN)

\* C18: an inversion called with fdm strictly inside (0, 1) that went on
\* to the grid returns a number only if the grid held a negative and a
\* positive trial value and the root finder succeeded on the bracket they
\* give; otherwise it raises, and it never returns an estimate taken from
\* a forced bracket or from a swallowed root-finder exception.
C18_UnbracketedFailsLoudly ==
    (/\ CompletedOneOf(Inversions)
     /\ Less(Zero, call.args[1].fdm)
     /\ Less(call.args[1].fdm, One)
     /\ "grid" \in used)
        => LET vtest == IF call.args[2].vcirc_finite
                        THEN NumericsOf(call).vtest ELSE AllOf(NaNSign)
               verified == Negative(vtest) # {} /\ Positive(vtest) # {}
           IN IF verified
              THEN raised = "none" =>
                      /\ returned.kind \in {"root", "gridpoint"}
                      /\ returned.a \in {Last(Negative(vtest)), First(Positive(vtest))}
                      /\ returned.b \in {Last(Negative(vtest)), First(Positive(vtest))}
              ELSE raised # "none"

C21_TiedResolvedBeforeVelocity ==
    Completed("_minfunc_vdm_mvir_from_fdm") =>
        \A i \in 1..Len(returned.steps) :
            returned.steps[i] \in VelocityEvaluations =>
                \E j \in 1..(i - 1) : returned.steps[j] = "_update_tied_parameters"

\* C22: for every mass profile and all valid parameter values
\* enclosed_mass(0) is 0 (the half of the claim that does not need the
\* values of the special functions away from 0; the other half is that
\* enclosed_mass is non-decreasing in r).
C22_EnclosedMassZeroAtZero ==
    (Completed("enclosed_mass") /\ call.args[2] = 0)
        => (raised = "none" /\ returned.kind = "zero")

\* C23: for every mass profile circular_velocity(0) is exactly 0, a finite
\* number and not NaN or infinity.
C23_CircularVelocityZeroAtZero ==
    (Completed("circular_velocity") /\ call.args[2] = 0)
        => (raised = "none" /\ returned.kind = "zero")

\* C24: for fdm inside its bounds, finite baryons and a grid that brackets
\* the root, calc_nEinasto_from_fdm completes without raising and returns
\* the value the root finder found, and calc_alphaEinasto_from_fdm its
\* reciprocal.
C24_EinastoInversionReturnsRoot ==
    (/\ CompletedOneOf({"calc_nEinasto_from_fdm", "calc_alphaEinasto_from_fdm"})
     /\ Less(Zero, call.args[1].fdm) /\ Less(call.args[1].fdm, One)
     /\ call.args[2].vcirc_finite
     /\ Negative(NumericsOf(call).vtest) # {}
     /\ Positive(NumericsOf(call).vtest) # {}
     /\ NumericsOf(call).brentq = "converges")
        => /\ raised = "none"
           /\ returned.kind = IF call.op = "calc_nEinasto_from_fdm"
                              THEN "root" ELSE "inverse"

\* C25: when Einasto_param names a fit variable, 'nEinasto' or
\* 'alphaEinasto' in any letter case, a construction that succeeds leaves
\* that parameter as the fit variable and ties the other one, whichever of
\* nEinasto and alphaEinasto were passed.
C25_NamedFitVariableIsKept ==
    (/\ Completed("Einasto")
     /\ Lower(call.args[1]) \in {"neinasto", "alphaeinasto"}
     /\ raised = "none")
        => IF Lower(call.args[1]) = "neinasto"
           THEN /\ returned.Einasto_param = "nEinasto"
                /\ returned.tied.alphaEinasto /\ ~returned.tied.nEinasto
           ELSE /\ returned.Einasto_param = "alphaEinasto"
                /\ returned.tied.nEinasto /\ ~returned.tied.alphaEinasto

\* C26: coord_transform(x, y, z) returns normally, and what it returns is
\* evaluate on the same coordinates with the instance's inc, pa, xshift
\* and yshift, or with the arguments that override them.
C26_CoordTransformIsEvaluate ==
    Completed("coord_transform") =>
        LET self == call.args[1]
        IN /\ raised = "none"
           /\ returned.xyz = evaluate(call.args[2], call.args[3], call.args[4],
                                      OrOwn(call.args[5], self.inc),
                                      OrOwn(call.args[6], self.pa),
                                      OrOwn(call.args[7], self.xshift),
                                      OrOwn(call.args[8], self.yshift),
                                      self.vel_shift)

\* C27: inverse_coord_transform is the inverse of evaluate in both orders:
\* it takes what evaluate returned back to the sky coordinates, and
\* evaluate takes what it returned back to the galaxy coordinates, for the
\* same inc, pa, xshift and yshift.
C27_InverseUndoesEvaluate ==
    /\ Completed("evaluate") =>
          inverse_coord_transform(
              Geometry(call.args[4], call.args[5], call.args[6], call.args[7]),
              returned.xyz[1], returned.xyz[2], returned.xyz[3],
              NoArg, NoArg, NoArg, NoArg).value.xyz
            = <<call.args[1], call.args[2], call.args[3]>>
    /\ Completed("inverse_coord_transform") =>
          LET self == call.args[1]
          IN /\ raised = "none"
             /\ evaluate(returned.xyz[1], returned.xyz[2], returned.xyz[3],
                         OrOwn(call.args[5], self.inc), OrOwn(call.args[6], self.pa),
                         OrOwn(call.args[7], self.xshift),
                         OrOwn(call.args[8], self.yshift), self.vel_shift)
                  = <<call.args[2], call.args[3], call.args[4]>>

\* C27 witness: evaluate was called with an inclination and a position
\* angle that are not multiples of 90 degrees and a shift in x, on a point
\* off every axis, and moved all three of its coordinates.
C27_Witness ==
    /\ Completed("evaluate")
    /\ call.args[4] = Angle(4, 3, 5)
    /\ call.args[5] = Angle(3, 4, 5)
    /\ call.args[6] = Rational(0 - 3, 2)
    /\ \A i \in 1..3 : call.args[i] # Rational(0, 1)
    /\ \A i \in 1..3 : returned.xyz[i] # call.args[i]

\* C28: component names are unique across kinds: over a call of
\* add_component every registered mass component stays the model stored
\* under its name and stays flagged as mass, so that adding a geometry
\* under the name of a mass component neither overwrites it nor clears
\* its flag.
C28_MassComponentKeptByAdd ==
    [][call'.op = "add_component"
       => \A nm \in MassNames(ModelSet) :
            /\ nm \in DOMAIN components'
            /\ components'[nm] = components[nm]
            /\ nm \in DOMAIN mass_components'
            /\ mass_components'[nm]]_vars

\* C29: an Einasto halo constructed with nEinasto=v, or alphaEinasto=v,
\* holds v as the value of that parameter; the class default does not
\* replace it.
C29_ShapeArgumentIsHeld ==
    (Completed("Einasto") /\ raised = "none")
        => /\ call.args[3] # None => returned.value.nEinasto = call.args[3]
           /\ call.args[2] # None => returned.value.alphaEinasto = call.args[2]

\* C30: the fdm inversions are read-only on the halo: when
\* calc_mvirial_from_fdm, with or without adiabatic contraction,
\* calc_alpha_from_fdm or calc_rB_from_fdm has returned or raised, the
\* halo's own mvirial, conc, alpha, rB and fdm are what they were before
\* the call.
C30_InversionsLeaveHaloAlone ==
    CompletedOneOf({"calc_mvirial_from_fdm", "calc_alpha_from_fdm",
                    "calc_rB_from_fdm"})
        => \A p \in {"mvirial", "conc", "alpha", "rB", "fdm"} :
              halo[p] = call.args[1][p]

\* C30 witness: calc_mvirial_from_fdm under adiabatic contraction went
\* through both grids and the root finder and returned a root.
C30_Witness ==
    /\ Completed("calc_mvirial_from_fdm")
    /\ call.args[4]
    /\ {"grid", "brentq"} \subseteq used
    /\ raised = "none"
    /\ returned.kind = "root"
    /\ halo = call.args[1]

====
